---------------------------- MODULE Spec2Model ----------------------------
(***************************************************************************)
(* A model of fairseq2's metric callbacks (src/fairseq2/callbacks/         *)
(* metrics.py): the Bleu, EffectiveThroughput and WER accumulators, the    *)
(* Metrics registry with its local and synchronized compute, and the data  *)
(* pipeline's filter stage.                                                *)
(*                                                                         *)
(* A tensor holding one number is modelled by that number, a vector by a   *)
(* tuple; sums are exact, and a quotient of two tensors is kept exact, as  *)
(* a fraction in lowest terms.  Each group of variables has its own        *)
(* specification (SpecET and SpecETHist, SpecWER, Spec and SpecLive,       *)
(* SpecWorkers, SpecFilter); a specification leaves the other groups at    *)
(* their initial values.                                                   *)
(***************************************************************************)
EXTENDS Integers, Sequences, FiniteSets, TLC

VARIABLES
    now,            \* the reading of time.perf_counter()
    et,             \* EffectiveThroughput instances: id -> [num_total, start_time, is_inference]
    etLast,         \* history: the last call made on an EffectiveThroughput instance
    etHist,         \* whether the three histories below are recorded (SpecETHist)
    etSince,        \* history: id -> items added to the instance since its last reset()
    etResetAt,      \* history: id -> clock reading of its last reset() (of __init__ if none)
    etPrevCompute,  \* history: id -> clock reading of its previous compute(), -1 if none
    etEver,         \* history: id -> sum of the accepted update() arguments and of the
                    \*          peer counts merged in, since __init__
    wer,            \* a WER instance: [counters |-> <<hits, subs, dels, ins>>]
    werLast,        \* history: the last call made on the WER instance
    werSum,         \* history: the measures of all updates since the last reset, by key
    werSame,        \* history: every update since the last reset had prediction = reference
    worldSize,      \* torchtnt's get_world_size(): the number of participants (ranks)
    regKeys,        \* the registry's keys, in iteration order (the same on every rank)
    reg,            \* rank -> the Metrics registry of that rank: key -> entry
    regCall,        \* rank -> the frame of its compute() call, kept after it returned
    regLast,        \* history: the last step made on a registry
    regUpdates,     \* history: how many update() calls were made on registry entries
    fltSource,      \* filter stage: the upstream sequence (read_sequence)
    fltPred,        \* filter stage: the predicate, element -> "true" | "false" | "raise"
    fltCursor,      \* filter stage: how many upstream elements have been pulled
    fltState,       \* filter stage: "Ready" | "Iterating" | "Exhausted" | "Failed"
    fltOut,         \* history: the elements yielded in the current pass
    fltEvals,       \* history: the elements the predicate was called on in the current pass
    fltLast,        \* history: the outcome of the last next()
    fltRound,       \* history: how many reset() calls were made
    fltDone,        \* history: how many passes ran to exhaustion
    fltAborted,     \* history: how many passes were aborted by a failing predicate
    mKind,          \* workers: the metric class, "Bleu" | "WER" | "EffectiveThroughput"
    mStore,         \* workers: id -> the state of that worker's instance of the class
    mSingle,        \* history: the instance of a single worker that got every update
                    \*          (followed while mPure holds)
    mPure,          \* history: no worker's instance was merged into or reset so far
    mLast           \* history: the last call made on a worker's instance

etVars == <<now, et, etLast, etHist, etSince, etResetAt, etPrevCompute, etEver>>

werVars == <<wer, werLast, werSum, werSame>>

fltVars == <<fltSource, fltPred, fltCursor, fltState, fltOut, fltEvals,
             fltLast, fltRound, fltDone, fltAborted>>

regVars == <<worldSize, regKeys, reg, regCall, regLast, regUpdates>>

mVars == <<mKind, mStore, mSingle, mPure, mLast>>

vars == <<etVars, werVars, regVars, fltVars, mVars>>

\* What a call on an EffectiveThroughput instance, or on the WER instance,
\* cannot touch.
notET == <<werVars, regVars, fltVars, mVars>>

notWER == <<etVars, regVars, fltVars, mVars>>

notFilter == <<etVars, werVars, regVars, mVars>>

notReg == <<et, etLast, etHist, etSince, etResetAt, etPrevCompute, etEver, werVars,
            fltVars, mVars>>

notWorkers == <<et, etLast, etHist, etSince, etResetAt, etPrevCompute, etEver, werVars,
                regVars, fltVars>>

----------------------------------------------------------------------------
(* Bounds of the model. *)

NumInst == 2        \* EffectiveThroughput instances alive at once
MaxTime == 2        \* largest clock reading
MaxTotal == 2       \* cap on an instance's num_total
MaxArg == 1         \* update() arguments range over -MaxArg..MaxArg
MaxPeers == 2       \* longest peer list handed to merge_state()

MaxWords == 2       \* longest sentence (in words) handed to WER.update()
MaxCounter == 3     \* cap on each WER counter

MaxWorld == 2       \* largest world size
MaxRegWords == 1    \* longest sentence handed to the WER entries of a registry
MaxUpdates == 1     \* most update() calls on the entries of the registries
StatsLen == 2       \* length of the scorer's statistics vector (Bleu._determine_size)
MaxStat == 1        \* each statistic of one segment ranges over 0..MaxStat
MaxRefs == 2        \* most references handed to one Bleu.update()
MaxShard == 2       \* cap on what a worker's instance has counted (SpecWorkers)

MaxElem == 2        \* upstream elements are drawn from 1..MaxElem
MaxLen == 3         \* longest upstream sequence
MaxRounds == 2      \* most reset() calls on the filter stage

Insts == 1..NumInst

Words == {"a", "b"}

----------------------------------------------------------------------------
(* Arithmetic helpers. *)

Min(a, b) == IF a <= b THEN a ELSE b

Max(a, b) == IF a >= b THEN a ELSE b

RECURSIVE GCD(_, _)
GCD(a, b) == IF b = 0 THEN a ELSE GCD(b, a % b)

\* Tensor true division a / b for a, b >= 0, kept exact: the fraction in
\* lowest terms; <<1, 0>> stands for inf (a > 0, b = 0), <<0, 0>> for nan.
TrueDiv(a, b) ==
    LET g == GCD(a, b) IN
    IF g = 0 THEN <<0, 0>> ELSE <<a \div g, b \div g>>

\* All sequences over S of length 0..n.
SeqsUpTo(S, n) == UNION {[1..k -> S] : k \in 0..n}

----------------------------------------------------------------------------
(* EffectiveThroughput (metrics.py 112-168).  A method is an operator from *)
(* the instance's state (and the clock) to the state afterwards and what   *)
(* the call returns or raises.                                             *)

\* __init__: num_total = 0.0, start_time = time.perf_counter().  Besides the
\* two numbers the state records whether the start_time tensor is an
\* inference tensor, that is, was created under torch.inference_mode():
\* PyTorch refuses an in-place update of such a tensor outside inference
\* mode.  The tensors __init__ creates are normal ones.
EffectiveThroughput_init(t) ==
    [num_total |-> 0, start_time |-> t, is_inference |-> FALSE]

\* Mutant of update(): the argument is not checked.
EffectiveThroughput_update_unchecked(self, num_processed) ==
    [st |-> [self EXCEPT !.num_total = @ + num_processed], ret |-> "self"]

\* update(num_processed).
EffectiveThroughput_update(self, num_processed) ==
    IF num_processed < 0
    THEN [st |-> self, ret |-> "ValueError"]
    ELSE [st |-> [self EXCEPT !.num_total = @ + num_processed], ret |-> "self"]

\* compute(): elapsed = -start_time + perf_counter(); num_total / elapsed.
EffectiveThroughput_elapsed(self, t) == (0 - self.start_time) + t

EffectiveThroughput_compute(self, t) ==
    TrueDiv(self.num_total, EffectiveThroughput_elapsed(self, t))

\* Mutant of merge_state(): the latest start time is kept (torch.max).
RECURSIVE EffectiveThroughput_merge_state_max(_, _, _)
EffectiveThroughput_merge_state_max(h, self, metrics) ==
    IF metrics = <<>> THEN h
    ELSE LET metric == h[Head(metrics)]
             h1 == [h EXCEPT
                      ![self].num_total = @ + metric.num_total,
                      ![self].start_time = Max(@, metric.start_time),
                      ![self].is_inference = TRUE]
         IN EffectiveThroughput_merge_state_max(h1, self, Tail(metrics))

\* merge_state(metrics): the loop over the peers, one peer per iteration.
\* h is the store of instances, self the receiver's id, metrics the ids of
\* the peers in iteration order; the result is the store afterwards.  The
\* method runs under @torch.inference_mode(), and self.start_time is bound
\* to the new tensor torch.min() returns: an inference tensor.
RECURSIVE EffectiveThroughput_merge_state(_, _, _)
EffectiveThroughput_merge_state(h, self, metrics) ==
    IF metrics = <<>> THEN h
    ELSE LET metric == h[Head(metrics)]
             h1 == [h EXCEPT
                      ![self].num_total = @ + metric.num_total,
                      ![self].start_time = Min(@, metric.start_time),
                      ![self].is_inference = TRUE]
         IN EffectiveThroughput_merge_state(h1, self, Tail(metrics))

\* Mutant of reset(): the count is cleared as well.
EffectiveThroughput_reset_zero(self, t, inference_mode) ==
    [st |-> [self EXCEPT !.num_total = 0, !.start_time = t], ret |-> "self"]

\* reset(): start_time.fill_(perf_counter()); nothing else is touched.  The
\* method is not decorated with inference_mode, so unless the caller runs
\* under it (inference_mode), fill_() on an inference tensor raises
\* RuntimeError.
EffectiveThroughput_reset(self, t, inference_mode) ==
    IF self.is_inference /\ ~inference_mode
    THEN [st |-> self, ret |-> "RuntimeError"]
    ELSE [st |-> [self EXCEPT !.start_time = t], ret |-> "self"]

----------------------------------------------------------------------------
(* WER (metrics.py 171-197). *)

KEYS == <<"hits", "substitutions", "deletions", "insertions">>

\* The position of key k in KEYS.
KeyIndex(k) == CHOOSE i \in 1..Len(KEYS) : KEYS[i] = k

Measures(h, s, d, i) ==
    [hits |-> h, substitutions |-> s, deletions |-> d, insertions |-> i]

\* jiwer's alignment of a reference and a prediction, both sequences of
\* words: every way to turn the reference into the prediction by hits,
\* substitutions, deletions and insertions, as the counts of each.
RECURSIVE Alignments(_, _)
Alignments(reference, prediction) ==
    IF reference = <<>> THEN {Measures(0, 0, 0, Len(prediction))}
    ELSE IF prediction = <<>> THEN {Measures(0, 0, Len(reference), 0)}
    ELSE LET diag == Alignments(Tail(reference), Tail(prediction))
             del == Alignments(Tail(reference), prediction)
             ins == Alignments(reference, Tail(prediction))
         IN  {IF Head(reference) = Head(prediction)
              THEN [m EXCEPT !.hits = @ + 1]
              ELSE [m EXCEPT !.substitutions = @ + 1] : m \in diag}
             \cup {[m EXCEPT !.deletions = @ + 1] : m \in del}
             \cup {[m EXCEPT !.insertions = @ + 1] : m \in ins}

Cost(m) == m.substitutions + m.deletions + m.insertions

\* jiwer.compute_measures(reference, prediction): the measures of an
\* alignment of least cost (which one, among several, is jiwer's choice).
\* On an empty reference jiwer raises ValueError, or, in versions without
\* that check, counts every predicted word as an insertion.
ComputeMeasures(reference, prediction) ==
    LET all == Alignments(reference, prediction)
        best == {m \in all : \A o \in all : Cost(m) <= Cost(o)}
    IN  {[raised |-> FALSE, measures |-> m] : m \in best}
        \cup (IF reference = <<>>
              THEN {[raised |-> TRUE, measures |-> Measures(0, 0, 0, 0)]}
              ELSE {})

\* __init__: counters = zeros(len(KEYS)).
WER_init == [counters |-> [i \in 1..Len(KEYS) |-> 0]]

\* update(): counters += tensor([measures[k] for k in KEYS]).
WER_update(self, measures) ==
    [counters |-> [i \in 1..Len(KEYS) |-> self.counters[i] + measures[KEYS[i]]]]

\* Mutant of compute(): the total counts insertions where it should count
\* hits.
WER_compute_insertions(self) ==
    LET measures == [k \in {KEYS[i] : i \in 1..Len(KEYS)} |->
                        self.counters[KeyIndex(k)]]
        incorrect == measures["substitutions"] + measures["deletions"]
                       + measures["insertions"]
        total == measures["substitutions"] + measures["deletions"]
                   + measures["insertions"]
    IN  TrueDiv(incorrect, total)

\* Mutant of compute(): 0 is returned when the total is zero.
WER_compute_fallback(self) ==
    LET measures == [k \in {KEYS[i] : i \in 1..Len(KEYS)} |->
                        self.counters[KeyIndex(k)]]
        incorrect == measures["substitutions"] + measures["deletions"]
                       + measures["insertions"]
        total == measures["substitutions"] + measures["deletions"]
                   + measures["hits"]
    IN  IF total = 0 THEN <<0, 1>> ELSE TrueDiv(incorrect, total)

\* compute(): measures = {k: counters[i] for i, k in enumerate(KEYS)};
\* incorrect / total.
WER_compute(self) ==
    LET measures == [k \in {KEYS[i] : i \in 1..Len(KEYS)} |->
                        self.counters[KeyIndex(k)]]
        incorrect == measures["substitutions"] + measures["deletions"]
                       + measures["insertions"]
        total == measures["substitutions"] + measures["deletions"]
                   + measures["hits"]
    IN  TrueDiv(incorrect, total)

\* reset(), inherited from torcheval's Metric: every registered state goes
\* back to the default it was registered with.
WER_reset(self) == WER_init

----------------------------------------------------------------------------
(* SpecWER: calls on one WER instance. *)

Sentences == SeqsUpTo(Words, MaxWords)

NoWerCall == [op |-> "none", ret |-> "none", value |-> <<0, 0>>]

InitWER ==
    /\ wer = WER_init
    /\ werLast = NoWerCall
    /\ werSum = Measures(0, 0, 0, 0)
    /\ werSame = TRUE

CallWerUpdate(prediction, reference) ==
    \E r \in ComputeMeasures(reference, prediction) :
        LET st == IF r.raised THEN wer ELSE WER_update(wer, r.measures) IN
        /\ \A i \in 1..Len(KEYS) : st.counters[i] <= MaxCounter
        /\ wer' = st
        /\ werLast' = [NoWerCall EXCEPT
                         !.op = "update",
                         !.ret = IF r.raised THEN "ValueError" ELSE "None"]
        /\ werSum' = [k \in DOMAIN werSum |-> werSum[k] + r.measures[k]]
        /\ werSame' = (werSame /\ (r.raised \/ prediction = reference))
        /\ UNCHANGED notWER

CallWerCompute ==
    /\ werLast' = [NoWerCall EXCEPT !.op = "compute", !.ret = "value",
                                    !.value = WER_compute(wer)]
    /\ UNCHANGED <<wer, werSum, werSame, notWER>>

CallWerReset ==
    /\ wer' = WER_reset(wer)
    /\ werLast' = [NoWerCall EXCEPT !.op = "reset", !.ret = "None"]
    /\ werSum' = Measures(0, 0, 0, 0)
    /\ werSame' = TRUE
    /\ UNCHANGED notWER

NextWER ==
    \/ \E prediction, reference \in Sentences :
          CallWerUpdate(prediction, reference)
    \/ CallWerCompute
    \/ CallWerReset

----------------------------------------------------------------------------
(* Bleu (metrics.py 55-105).  The sacrebleu scorer is a service: it turns  *)
(* a hypothesis and its references into a vector of statistics, and an     *)
(* accumulated vector into a score.                                        *)

\* __init__: bleu_counts = zeros(size), num_refs = zeros((1,)); these two are
\* the registered states.  metric_num_refs is the num_refs attribute of the
\* scorer (self._metric), -1 while compute() has not set it.
Bleu_init ==
    [bleu_counts |-> [i \in 1..StatsLen |-> 0], num_refs |-> <<0>>,
     metric_num_refs |-> -1]

\* update(hypothesis, references): counts are the scorer's statistics of the
\* segment; num_refs += len(references); bleu_counts += counts.
Bleu_update(self, counts, references) ==
    [self EXCEPT !.num_refs = <<@[1] + Len(references)>>,
                 !.bleu_counts = [i \in 1..StatsLen |-> @[i] + counts[i]]]

\* _compute_score_from_stats(stats).score: the scorer's score is a function
\* of the accumulated statistics alone; the model keeps it as the term
\* "score of stats".
CorpusScore(stats) == [score_of |-> stats]

\* compute(): the score of bleu_counts; on the way the scorer's num_refs
\* attribute is set to num_refs.item().
Bleu_compute(self) ==
    [st |-> [self EXCEPT !.metric_num_refs = self.num_refs[1]],
     value |-> CorpusScore(self.bleu_counts)]

\* reset(), inherited from torcheval's Metric: the registered states go back
\* to their defaults; the scorer is not touched.
Bleu_reset(self) ==
    [self EXCEPT !.bleu_counts = Bleu_init.bleu_counts,
                 !.num_refs = Bleu_init.num_refs]

----------------------------------------------------------------------------
(* The Metrics registry (metrics.py 16-40) and the services it calls.      *)

\* Python values a registry holds or compute() returns.
None == [py |-> "None"]

Float(q) == [py |-> "float", v |-> q]

\* A registry entry: a plain value, or a metric with its state.
Plain(x) == [kind |-> "value", st |-> x]

NewMetric(kind, t) ==
    [kind |-> kind,
     st |-> IF kind = "WER" THEN WER_init
            ELSE IF kind = "Bleu" THEN Bleu_init
            ELSE EffectiveThroughput_init(t)]

\* isinstance(v, torcheval.metrics.Metric)
IsMetric(v) == v.kind \in {"Bleu", "WER", "EffectiveThroughput"}

\* k.endswith(suffix)
EndsWith(k, suffix) ==
    /\ Len(k) >= Len(suffix)
    /\ SubSeq(k, Len(k) - Len(suffix) + 1, Len(k)) = suffix

\* v.compute() of a metric entry, at clock reading t.
Metric_compute(v, t) ==
    IF v.kind = "WER" THEN WER_compute(v.st)
    ELSE IF v.kind = "Bleu" THEN Bleu_compute(v.st).value
    ELSE EffectiveThroughput_compute(v.st, t)

\* v.reset() of a metric entry.
Metric_reset(v, t, inference_mode) ==
    [v EXCEPT !.st = IF v.kind = "WER" THEN WER_reset(v.st)
                     ELSE IF v.kind = "Bleu" THEN Bleu_reset(v.st)
                     ELSE EffectiveThroughput_reset(v.st, t, inference_mode).st]

\* Tensor addition, element by element.
TensorAdd(x, y) == [i \in DOMAIN x |-> x[i] + y[i]]

\* A Python iterable of metric instances (their ids): a list, which every
\* `for` traverses from its start, or an iterator (a generator, a map
\* object), which can be traversed once.
List(ids) == [once |-> FALSE, items |-> ids]

Iterator(ids) == [once |-> TRUE, items |-> ids]

\* `for metric in metrics`, run to its end: the items the loop visits, and
\* the iterable as the loop leaves it.
Iterate(metrics) ==
    [items |-> metrics.items,
     rest |-> IF metrics.once THEN [metrics EXCEPT !.items = <<>>] ELSE metrics]

\* Mutant of the inner loop: the sum is written to the peer.
RECURSIVE AddPeers_into_peer(_, _, _, _)
AddPeers_into_peer(h, self, metrics, k) ==
    IF metrics = <<>> THEN h
    ELSE AddPeers_into_peer(
             [h EXCEPT ![Head(metrics)][k] = TensorAdd(@, h[self][k])],
             self, Tail(metrics), k)

\* The inner loop of CounterBasedMetric.merge_state for the state name k:
\* x = getattr(self, k); x += getattr(metric, k) for each metric visited.  h
\* is the store of instances, metrics the ids visited, in order.
RECURSIVE AddPeers(_, _, _, _)
AddPeers(h, self, metrics, k) ==
    IF metrics = <<>> THEN h
    ELSE AddPeers([h EXCEPT ![self][k] = TensorAdd(@, h[Head(metrics)][k])],
                  self, Tail(metrics), k)

\* CounterBasedMetric.merge_state(metrics): the outer loop over the
\* registered state names; each name starts a new `for` over the same
\* iterable `metrics`.
RECURSIVE CounterBasedMetric_merge_state(_, _, _, _)
CounterBasedMetric_merge_state(h, self, metrics, names) ==
    IF names = <<>> THEN h
    ELSE LET loop == Iterate(metrics) IN
         CounterBasedMetric_merge_state(AddPeers(h, self, loop.items, Head(names)),
                                        self, loop.rest, Tail(names))

\* _state_name_to_default of a metric class: the registered state names, in
\* the order of the _add_state() calls.
StateNames(kind) ==
    IF kind = "Bleu" THEN <<"bleu_counts", "num_refs">>
    ELSE IF kind = "WER" THEN <<"counters">>
    ELSE <<"num_total", "start_time">>

\* metric.merge_state(metrics) of an instance of class `kind`.
Metric_merge_state(kind, h, self, metrics) ==
    IF kind = "EffectiveThroughput"
    THEN EffectiveThroughput_merge_state(h, self, Iterate(metrics).items)
    ELSE CounterBasedMetric_merge_state(h, self, metrics, StateNames(kind))

\* Mutant of the gathering: rank 0's own state is taken for the merged one.
SyncedMetric_local(kind, states) == states[0]

\* torcheval's get_synced_metric on rank 0: the states of all ranks are
\* gathered into replicas, and the replicas of the other ranks, as a list,
\* are merged into the replica of rank 0.
SyncedMetric(kind, states) ==
    LET n == Cardinality(DOMAIN states)
        peers == [i \in 1..(n - 1) |-> i]
    IN  Metric_merge_state(kind, states, 0, List(peers))[0]

\* Mutant of sync_and_compute(): every rank receives the value.
SyncAndCompute_all(rank, kind, states, t) ==
    Float(Metric_compute([kind |-> kind, st |-> SyncedMetric(kind, states)], t))

\* torcheval.metrics.toolkit.sync_and_compute(v) followed by .item(), as
\* rank `rank` sees it once every rank has joined: the states of all ranks
\* are gathered, rank 0 merges the replicas of the others into its own
\* replica and computes; "only rank 0 will get the actual value".
SyncAndCompute(rank, kind, states, t) ==
    IF rank # 0 THEN None
    ELSE Float(Metric_compute([kind |-> kind, st |-> SyncedMetric(kind, states)], t))

\* Mutant of the sync downgrade: the world size is not consulted.
EffectiveSync_always(sync, ws) == sync

\* sync = sync and get_world_size() > 1
EffectiveSync(sync, ws) == sync /\ ws > 1

\* Mutant of the result key: the prefix is dropped.
ResultKey_bare(prefix, k) == k

\* prefix + k
ResultKey(prefix, k) == prefix \o k

\* results[key] = val
Assign(results, key, val) ==
    [x \in DOMAIN results \cup {key} |-> IF x = key THEN val ELSE results[x]]

\* The loop of compute() over the entries of registry d, from position idx,
\* up to the next entry that needs the synchronized path (the call then waits
\* in sync_and_compute) or to the end (the call returns).
RECURSIVE Metrics_compute(_, _, _, _, _, _, _)
Metrics_compute(d, keys, idx, prefix, sync, results, t) ==
    IF idx > Len(keys)
    THEN [pc |-> "return", idx |-> idx, results |-> results]
    ELSE LET k == keys[idx]
             v == d[k]
         IN  IF ~IsMetric(v)
             THEN Metrics_compute(d, keys, idx + 1, prefix, sync,
                                  Assign(results, ResultKey(prefix, k), v.st), t)
             ELSE IF sync
             THEN [pc |-> "sync", idx |-> idx, results |-> results]
             ELSE Metrics_compute(d, keys, idx + 1, prefix, sync,
                                  Assign(results, ResultKey(prefix, k),
                                         Float(Metric_compute(v, t))), t)

\* reset(): every metric entry whose key does not end with "_min" is reset.
\* No entry of a registry is ever the receiver of a merge (the synchronized
\* compute merges replicas), so its tensors are normal ones and the reset
\* goes through whatever mode the caller is in.
Metrics_reset(d, t) ==
    [k \in DOMAIN d |->
        IF EndsWith(k, "_min") THEN d[k]
        ELSE IF IsMetric(d[k]) THEN Metric_reset(d[k], t, FALSE)
        ELSE d[k]]

----------------------------------------------------------------------------
(* Spec: one registry per rank, its producers, and compute() and reset().  *)

Ranks == 0..(worldSize - 1)

RegNames == <<"wer", "wps_min">>

Kinds == {"value", "WER", "EffectiveThroughput"}

PlainValues == {None, Float(<<1, 2>>)}

Prefixes == {"", "eval/"}

Keys == {regKeys[i] : i \in 1..Len(regKeys)}

MetricKeys(r) == {k \in Keys : IsMetric(reg[r][k])}

\* The frame of a compute() call that is under way.
NoFrame == [pc |-> "idle", prefix |-> "", sync |-> FALSE, eff |-> FALSE,
            idx |-> 0, results |-> <<>>, synced |-> {}]

NoStep == [op |-> "none", rank |-> 0, at |-> 0, pre |-> <<>>, frame |-> NoFrame]

\* The registries are set up by the same program on every rank: the same
\* keys hold the same kind of entry; a plain value may differ by rank.
InitReg ==
    /\ worldSize \in 1..MaxWorld
    /\ \E present \in SUBSET (1..Len(RegNames)) :
          regKeys = SelectSeq(RegNames, LAMBDA k : \E i \in present : RegNames[i] = k)
    /\ \E kinds \in [Keys -> Kinds], x \in PlainValues :
          reg = [r \in Ranks |-> [k \in Keys |->
                    IF kinds[k] = "value" THEN Plain(x) ELSE NewMetric(kinds[k], 0)]]
    /\ regCall = [r \in Ranks |-> NoFrame]
    /\ regLast = NoStep
    /\ regUpdates = 0

Idle(r) == regCall[r].pc = "idle"

\* The producer of rank r updates the WER entry k.
RegUpdateWer(r, k, prediction, reference) ==
    /\ Idle(r)
    /\ regUpdates < MaxUpdates
    /\ reg[r][k].kind = "WER"
    /\ \E m \in ComputeMeasures(reference, prediction) :
          LET st == IF m.raised THEN reg[r][k].st
                    ELSE WER_update(reg[r][k].st, m.measures) IN
          /\ \A i \in 1..Len(KEYS) : st.counters[i] <= MaxCounter
          /\ reg' = [reg EXCEPT ![r][k].st = st]
    /\ regUpdates' = regUpdates + 1
    /\ regLast' = [NoStep EXCEPT !.op = "update", !.rank = r]
    /\ UNCHANGED <<now, worldSize, regKeys, regCall, notReg>>

\* The producer of rank r updates the EffectiveThroughput entry k.
RegUpdateEt(r, k, n) ==
    /\ Idle(r)
    /\ regUpdates < MaxUpdates
    /\ reg[r][k].kind = "EffectiveThroughput"
    /\ LET u == EffectiveThroughput_update(reg[r][k].st, n) IN
          /\ u.st.num_total <= MaxTotal
          /\ reg' = [reg EXCEPT ![r][k].st = u.st]
    /\ regUpdates' = regUpdates + 1
    /\ regLast' = [NoStep EXCEPT !.op = "update", !.rank = r]
    /\ UNCHANGED <<now, worldSize, regKeys, regCall, notReg>>

\* Rank r runs the loop of compute() from frame f on: up to the next
\* sync_and_compute(), which it enters and waits in, or to the return, whose
\* mapping the history keeps.
Advance(r, f) ==
    LET g == Metrics_compute(reg[r], regKeys, f.idx, f.prefix, f.eff, f.results, now)
    IN  /\ regCall' = [regCall EXCEPT ![r] =
               IF g.pc = "return" THEN NoFrame
               ELSE [f EXCEPT !.pc = "sync", !.idx = g.idx, !.results = g.results,
                              !.synced = @ \cup {regKeys[g.idx]}]]
        /\ regLast' = IF g.pc = "return"
                       THEN [NoStep EXCEPT !.op = "return", !.rank = r, !.at = now,
                                           !.frame = [f EXCEPT !.results = g.results]]
                       ELSE [NoStep EXCEPT !.op = "sync", !.rank = r]

\* Rank r calls compute(prefix, sync).
ComputeCall(r, prefix, sync) ==
    /\ Idle(r)
    /\ Advance(r, [NoFrame EXCEPT !.prefix = prefix, !.sync = sync,
                                  !.eff = EffectiveSync(sync, worldSize),
                                  !.idx = 1])
    /\ UNCHANGED <<now, worldSize, regKeys, reg, regUpdates, notReg>>

\* Rank r, back from sync_and_compute(), goes on with its loop.
ComputeRun(r) ==
    /\ regCall[r].pc = "run"
    /\ Advance(r, regCall[r])
    /\ UNCHANGED <<now, worldSize, regKeys, reg, regUpdates, notReg>>

\* Mutant of the barrier: the collective completes as soon as rank 0 has
\* entered it.
AllJoined_coordinator == regCall[0].pc = "sync"

\* The collective inside sync_and_compute() has no timeout and completes
\* only when every rank has entered it.
AllJoined == \A r \in Ranks : regCall[r].pc = "sync"

\* Every rank has entered sync_and_compute(): the collective completes, and
\* each rank goes on with what it received.
SyncComplete ==
    /\ AllJoined
    /\ regCall' = [r \in Ranks |->
          IF regCall[r].pc # "sync" THEN regCall[r]
          ELSE
          LET f == regCall[r]
              k == regKeys[f.idx]
              val == SyncAndCompute(r, reg[r][k].kind,
                                    [q \in Ranks |-> reg[q][k].st], now)
          IN  [f EXCEPT !.pc = "run", !.idx = @ + 1,
                        !.results = Assign(@, ResultKey(f.prefix, k), val)]]
    /\ regLast' = [NoStep EXCEPT !.op = "synced"]
    /\ UNCHANGED <<now, worldSize, regKeys, reg, regUpdates, notReg>>

\* Rank r calls reset().
RegReset(r) ==
    /\ Idle(r)
    /\ reg' = [reg EXCEPT ![r] = Metrics_reset(reg[r], now)]
    /\ regLast' = [NoStep EXCEPT !.op = "reset", !.rank = r, !.pre = reg[r],
                                 !.at = now]
    /\ UNCHANGED <<now, worldSize, regKeys, regCall, regUpdates, notReg>>

----------------------------------------------------------------------------
(* The filter stage of the data pipeline: read_sequence(s).filter(fn)      *)
(* .and_return().  Its implementation is not among the sources; it is      *)
(* modelled from the specification's section 4.6 and from the unit test    *)
(* (test_filter.py).                                                       *)

Elems == 1..MaxElem

\* Mutant of next(): a rejected element ends the pass (take-while).
Filter_next_takewhile(source, pred, cursor, evals) ==
    IF cursor = Len(source)
    THEN [ret |-> "StopIteration", value |-> 0, cursor |-> cursor, evals |-> evals]
    ELSE LET d == source[cursor + 1]
             seen == Append(evals, d)
         IN  IF pred[d] = "raise"
             THEN [ret |-> "error", value |-> d, cursor |-> cursor + 1, evals |-> seen]
             ELSE IF pred[d] = "true"
             THEN [ret |-> "value", value |-> d, cursor |-> cursor + 1, evals |-> seen]
             ELSE [ret |-> "StopIteration", value |-> 0, cursor |-> Len(source),
                   evals |-> seen]

\* Mutant of next(): a failing predicate call is swallowed, and the element
\* skipped.
RECURSIVE Filter_next_swallow(_, _, _, _)
Filter_next_swallow(source, pred, cursor, evals) ==
    IF cursor = Len(source)
    THEN [ret |-> "StopIteration", value |-> 0, cursor |-> cursor, evals |-> evals]
    ELSE LET d == source[cursor + 1]
             seen == Append(evals, d)
         IN  IF pred[d] = "true"
             THEN [ret |-> "value", value |-> d, cursor |-> cursor + 1, evals |-> seen]
             ELSE Filter_next_swallow(source, pred, cursor + 1, seen)

\* One next() on the stage: pull upstream elements from `cursor` on and call
\* the predicate on each, until it accepts one (yield it), raises (the error
\* goes to the consumer) or the upstream is exhausted.  `evals` collects the
\* elements the predicate was called on.
RECURSIVE Filter_next(_, _, _, _)
Filter_next(source, pred, cursor, evals) ==
    IF cursor = Len(source)
    THEN [ret |-> "StopIteration", value |-> 0, cursor |-> cursor, evals |-> evals]
    ELSE LET d == source[cursor + 1]
             seen == Append(evals, d)
         IN  IF pred[d] = "raise"
             THEN [ret |-> "error", value |-> d, cursor |-> cursor + 1, evals |-> seen]
             ELSE IF pred[d] = "true"
             THEN [ret |-> "value", value |-> d, cursor |-> cursor + 1, evals |-> seen]
             ELSE Filter_next(source, pred, cursor + 1, seen)

\* The state after next() returned `ret`.
Filter_state(ret) ==
    IF ret = "value" THEN "Iterating"
    ELSE IF ret = "error" THEN "Failed" ELSE "Exhausted"

\* Mutant of reset(): the upstream keeps its position.
Filter_reset_keep(cursor) == cursor

\* reset(): the upstream is rewound; the position it is left at.
Filter_reset(cursor) == 0

NoNext == [ret |-> "none", value |-> 0]

\* The start of a pass: after and_return(), and after reset().
InitFilterPass ==
    /\ fltCursor = 0
    /\ fltState = "Ready"
    /\ fltOut = <<>>
    /\ fltEvals = <<>>
    /\ fltLast = NoNext
    /\ fltRound = 0
    /\ fltDone = 0
    /\ fltAborted = 0

InitFilter ==
    /\ fltSource \in SeqsUpTo(Elems, MaxLen)
    /\ fltPred \in [Elems -> {"true", "false", "raise"}]
    /\ InitFilterPass

\* The consumer asks for the next element.  An exhausted stage signals
\* exhaustion again; a pass that failed is over, and the stage is used again
\* only after reset().
CallNext ==
    /\ fltState # "Failed"
    /\ LET r == Filter_next(fltSource, fltPred, fltCursor, fltEvals) IN
        /\ fltCursor' = r.cursor
        /\ fltEvals' = r.evals
        /\ fltState' = Filter_state(r.ret)
        /\ fltOut' = IF r.ret = "value" THEN Append(fltOut, r.value) ELSE fltOut
        /\ fltLast' = [ret |-> r.ret, value |-> r.value]
        /\ fltDone' = IF r.ret = "StopIteration" /\ fltState # "Exhausted"
                      THEN fltDone + 1 ELSE fltDone
        /\ fltAborted' = IF r.ret = "error" THEN fltAborted + 1 ELSE fltAborted
    /\ UNCHANGED <<fltSource, fltPred, fltRound, notFilter>>

\* reset(): the upstream is rewound to its beginning.
CallFilterReset ==
    /\ fltRound < MaxRounds
    /\ fltCursor' = Filter_reset(fltCursor)
    /\ fltState' = "Ready"
    /\ fltOut' = <<>>
    /\ fltEvals' = <<>>
    /\ fltLast' = NoNext
    /\ fltRound' = fltRound + 1
    /\ UNCHANGED <<fltSource, fltPred, fltDone, fltAborted, notFilter>>

NextFilter ==
    \/ CallNext
    \/ CallFilterReset

----------------------------------------------------------------------------
(* SpecWorkers: the instances of one metric class held by the workers of a *)
(* job, one instance per worker.  Each update goes to one worker; beside   *)
(* the workers a single instance receives every update.                    *)

\* Mutant of compute(): the call starts a new measurement, as reset() does.
Metric_call_compute_restart(kind, self, t) ==
    [st |-> NewMetric(kind, t).st, value |-> Metric_compute([kind |-> kind, st |-> self], t)]

\* compute() of an instance of class `kind`: the instance afterwards and the
\* value returned.
Metric_call_compute(kind, self, t) ==
    IF kind = "Bleu" THEN Bleu_compute(self)
    ELSE [st |-> self, value |-> Metric_compute([kind |-> kind, st |-> self], t)]

\* The entries of a tensor, added up.
RECURSIVE TensorSum(_)
TensorSum(x) == IF x = <<>> THEN 0 ELSE Head(x) + TensorSum(Tail(x))

\* Whether state st of class `kind` is within the bounds.
WithinCaps(kind, st) ==
    IF kind = "Bleu"
    THEN /\ TensorSum(st.bleu_counts) <= MaxShard
         /\ st.num_refs[1] <= MaxShard
    ELSE IF kind = "WER"
    THEN TensorSum(st.counters) <= MaxShard
    ELSE st.num_total <= MaxShard

NoPrev == [op |-> "none", inst |-> 0, at |-> 0, value |-> <<0, 0>>]

NoWorkerCall ==
    [op |-> "none", inst |-> 0, at |-> 0, metrics |-> List(<<>>), pre |-> <<>>,
     preStore |-> <<>>, ret |-> "none", value |-> <<0, 0>>, merged |-> <<>>,
     prev |-> NoPrev]

\* What a compute() remembers of the call before it, if that was a
\* compute() too.
Prev ==
    IF mLast.op = "compute"
    THEN [op |-> mLast.op, inst |-> mLast.inst, at |-> mLast.at, value |-> mLast.value]
    ELSE NoPrev

InitWorkers ==
    /\ mKind \in {"Bleu", "WER", "EffectiveThroughput"}
    /\ mStore = [i \in Insts |-> NewMetric(mKind, 0).st]
    /\ mSingle = NewMetric(mKind, 0).st
    /\ mPure = TRUE
    /\ mLast = NoWorkerCall

IdleWorkers ==
    /\ mKind = "WER"
    /\ mStore = [i \in Insts |-> WER_init]
    /\ mSingle = WER_init
    /\ mPure = TRUE
    /\ mLast = NoWorkerCall

\* An update reaches worker i, and the single instance.
UpdateBoth(i, st, single, ret) ==
    /\ WithinCaps(mKind, st)
    /\ WithinCaps(mKind, single)
    /\ mStore' = [mStore EXCEPT ![i] = st]
    /\ mSingle' = IF mPure THEN single ELSE mSingle
    /\ mLast' = [NoWorkerCall EXCEPT !.op = "update", !.inst = i, !.ret = ret]
    /\ UNCHANGED <<now, mKind, mPure, notWorkers>>

WorkerUpdateBleu(i, counts, references) ==
    /\ mKind = "Bleu"
    /\ UpdateBoth(i, Bleu_update(mStore[i], counts, references),
                  Bleu_update(mSingle, counts, references), "None")

WorkerUpdateWer(i, prediction, reference) ==
    /\ mKind = "WER"
    /\ \E m \in ComputeMeasures(reference, prediction) :
          IF m.raised
          THEN UpdateBoth(i, mStore[i], mSingle, "ValueError")
          ELSE UpdateBoth(i, WER_update(mStore[i], m.measures),
                          WER_update(mSingle, m.measures), "None")

WorkerUpdateEt(i, n) ==
    /\ mKind = "EffectiveThroughput"
    /\ UpdateBoth(i, EffectiveThroughput_update(mStore[i], n).st,
                  EffectiveThroughput_update(mSingle, n).st,
                  EffectiveThroughput_update(mStore[i], n).ret)

WorkerCompute(i) ==
    LET c == Metric_call_compute(mKind, mStore[i], now) IN
    /\ mStore' = [mStore EXCEPT ![i] = c.st]
    /\ mLast' = [NoWorkerCall EXCEPT !.op = "compute", !.inst = i, !.at = now,
                                     !.pre = mStore[i], !.ret = "value",
                                     !.value = c.value, !.prev = Prev]
    /\ UNCHANGED <<now, mKind, mSingle, mPure, notWorkers>>

\* merge_state(metrics) on worker i's instance, the peers being instances of
\* other workers.
WorkerMergeState(i, metrics) ==
    LET h == Metric_merge_state(mKind, mStore, i, metrics) IN
    /\ WithinCaps(mKind, h[i])
    /\ mStore' = h
    /\ mPure' = (mPure /\ metrics.items = <<>>)
    /\ mSingle' = IF mPure' THEN mSingle ELSE NewMetric(mKind, 0).st
    /\ mLast' = [NoWorkerCall EXCEPT !.op = "merge_state", !.inst = i,
                                     !.metrics = metrics, !.preStore = mStore,
                                     !.ret = "self"]
    /\ UNCHANGED <<now, mKind, notWorkers>>

WorkerReset(i, inference_mode) ==
    /\ mStore' = [mStore EXCEPT ![i] =
                     Metric_reset([kind |-> mKind, st |-> mStore[i]], now,
                                  inference_mode).st]
    /\ mPure' = FALSE
    /\ mSingle' = NewMetric(mKind, 0).st
    /\ mLast' = [NoWorkerCall EXCEPT !.op = "reset", !.inst = i]
    /\ UNCHANGED <<now, mKind, notWorkers>>

\* The synchronized compute over the workers' instances, as worker 1 (rank
\* 0) sees it: the merged replica and its value.  The instances themselves
\* are not touched.
WorkerSyncAndCompute ==
    LET states == [q \in 0..(NumInst - 1) |-> mStore[q + 1]] IN
    /\ mLast' = [NoWorkerCall EXCEPT
                    !.op = "sync_and_compute", !.inst = 1, !.at = now,
                    !.merged = SyncedMetric(mKind, states),
                    !.value = SyncAndCompute(0, mKind, states, now)]
    /\ UNCHANGED <<now, mKind, mStore, mSingle, mPure, notWorkers>>

----------------------------------------------------------------------------
(* SpecET: calls on EffectiveThroughput instances, and the clock. *)

\* The counts of the instances `ids` of store h, added up.
RECURSIVE SumTotals(_, _)
SumTotals(h, ids) ==
    IF ids = <<>> THEN 0 ELSE h[Head(ids)].num_total + SumTotals(h, Tail(ids))

NoCall == [op |-> "none", inst |-> 0, at |-> 0, n |-> 0, peers |-> <<>>,
           pre |-> EffectiveThroughput_init(0), preStore |-> <<>>,
           ret |-> "none", value |-> <<0, 0>>, elapsed |-> 0, prev |-> -1]

InitETCommon ==
    /\ now = 0
    /\ et = [i \in Insts |-> EffectiveThroughput_init(0)]
    /\ etSince = [i \in Insts |-> 0]
    /\ etResetAt = [i \in Insts |-> 0]
    /\ etPrevCompute = [i \in Insts |-> -1]
    /\ etEver = [i \in Insts |-> 0]
    /\ etLast = NoCall

IdleReg ==
    /\ worldSize = 1
    /\ regKeys = <<>>
    /\ reg = [r \in Ranks |-> <<>>]
    /\ regCall = [r \in Ranks |-> NoFrame]
    /\ regLast = NoStep
    /\ regUpdates = 0

IdleFilter ==
    /\ fltSource = <<>>
    /\ fltPred = [e \in Elems |-> "true"]
    /\ InitFilterPass

InitET ==
    InitETCommon /\ etHist = FALSE /\ InitWER /\ IdleReg /\ IdleFilter /\ IdleWorkers

InitETHist ==
    InitETCommon /\ etHist = TRUE /\ InitWER /\ IdleReg /\ IdleFilter /\ IdleWorkers

\* The clock advances.
Tick ==
    /\ now < MaxTime
    /\ now' = now + 1
    /\ UNCHANGED <<et, etLast, etHist, etSince, etResetAt, etPrevCompute, etEver, notET>>

CallUpdate(i, n) ==
    LET r == EffectiveThroughput_update(et[i], n) IN
    /\ r.st.num_total <= MaxTotal
    /\ et' = [et EXCEPT ![i] = r.st]
    /\ etLast' = [NoCall EXCEPT !.op = "update", !.inst = i, !.n = n,
                                !.pre = et[i], !.ret = r.ret]
    /\ etSince' = IF etHist /\ r.ret = "self"
                  THEN [etSince EXCEPT ![i] = @ + n] ELSE etSince
    /\ etEver' = IF etHist /\ r.ret = "self"
                 THEN [etEver EXCEPT ![i] = @ + n] ELSE etEver
    /\ UNCHANGED <<now, etHist, etResetAt, etPrevCompute, notET>>

CallCompute(i) ==
    /\ etLast' = [NoCall EXCEPT !.op = "compute", !.inst = i, !.at = now, !.pre = et[i],
                                !.ret = "value",
                                !.value = EffectiveThroughput_compute(et[i], now),
                                !.elapsed = EffectiveThroughput_elapsed(et[i], now),
                                !.prev = etPrevCompute[i]]
    /\ etPrevCompute' = IF etHist
                        THEN [etPrevCompute EXCEPT ![i] = now] ELSE etPrevCompute
    /\ UNCHANGED <<now, et, etHist, etSince, etResetAt, etEver, notET>>

\* The peers are other instances (the replicas of the other ranks, when the
\* call comes from the synchronized compute).
CallMergeState(i, peers) ==
    LET h == EffectiveThroughput_merge_state(et, i, peers) IN
    /\ h[i].num_total <= MaxTotal
    /\ et' = h
    /\ etLast' = [NoCall EXCEPT !.op = "merge_state", !.inst = i, !.peers = peers,
                                !.pre = et[i], !.preStore = et, !.ret = "self"]
    /\ etSince' = IF etHist
                  THEN [etSince EXCEPT ![i] = @ + (h[i].num_total - et[i].num_total)]
                  ELSE etSince
    /\ etEver' = IF etHist
                 THEN [etEver EXCEPT ![i] = @ + SumTotals(et, peers)] ELSE etEver
    /\ UNCHANGED <<now, etHist, etResetAt, etPrevCompute, notET>>

CallReset(i, inference_mode) ==
    LET r == EffectiveThroughput_reset(et[i], now, inference_mode) IN
    /\ et' = [et EXCEPT ![i] = r.st]
    /\ etLast' = [NoCall EXCEPT !.op = "reset", !.inst = i, !.pre = et[i],
                                !.at = IF etHist THEN now ELSE 0, !.ret = r.ret]
    /\ etSince' = IF etHist /\ r.ret = "self"
                  THEN [etSince EXCEPT ![i] = 0] ELSE etSince
    /\ etResetAt' = IF etHist /\ r.ret = "self"
                    THEN [etResetAt EXCEPT ![i] = now] ELSE etResetAt
    /\ UNCHANGED <<now, etHist, etPrevCompute, etEver, notET>>

NextET ==
    \/ Tick
    \/ \E i \in Insts, n \in (0 - MaxArg)..MaxArg : CallUpdate(i, n)
    \/ \E i \in Insts : CallCompute(i)
    \/ \E i \in Insts : \E peers \in SeqsUpTo(Insts \ {i}, MaxPeers) :
          CallMergeState(i, peers)
    \/ \E i \in Insts, inference_mode \in BOOLEAN : CallReset(i, inference_mode)

SpecET == InitET /\ [][NextET]_vars

\* The same calls, with the histories of resets and computes recorded.
SpecETHist == InitETHist /\ [][NextET]_vars

\* Calls on the WER instance.
InitWERSpec ==
    InitWER /\ InitETCommon /\ etHist = FALSE /\ IdleReg /\ IdleFilter /\ IdleWorkers

SpecWER == InitWERSpec /\ [][NextWER]_vars

\* The registries of all ranks.
Init ==
    InitReg /\ InitETCommon /\ etHist = FALSE /\ InitWER /\ IdleFilter /\ IdleWorkers

Next ==
    \/ Tick
    \/ \E r \in Ranks, k \in Keys :
       \E prediction, reference \in SeqsUpTo(Words, MaxRegWords) :
          RegUpdateWer(r, k, prediction, reference)
    \/ \E r \in Ranks, k \in Keys : \E n \in (0 - MaxArg)..MaxArg :
          RegUpdateEt(r, k, n)
    \/ \E r \in Ranks, prefix \in Prefixes, sync \in BOOLEAN :
          ComputeCall(r, prefix, sync)
    \/ \E r \in Ranks : ComputeRun(r)
    \/ SyncComplete
    \/ \E r \in Ranks : RegReset(r)

Spec == Init /\ [][Next]_vars

\* The same, where a collective every rank has entered does complete, and a
\* rank back from it does go on with its loop.  Whether and when a rank calls
\* compute() is left to its program.
SpecLive ==
    /\ Init
    /\ [][Next]_vars
    /\ WF_vars(SyncComplete)
    /\ \A r \in 0..(MaxWorld - 1) : WF_vars(r \in Ranks /\ ComputeRun(r))

\* Iteration over a filter stage.
InitFilterSpec ==
    InitFilter /\ InitETCommon /\ etHist = FALSE /\ InitWER /\ IdleReg /\ IdleWorkers

SpecFilter == InitFilterSpec /\ [][NextFilter]_vars

\* The workers' instances of a metric class.
InitWorkersSpec ==
    InitWorkers /\ InitETCommon /\ etHist = FALSE /\ InitWER /\ IdleReg /\ IdleFilter

\* The clock advances; only EffectiveThroughput reads it.
WorkerTick == mKind = "EffectiveThroughput" /\ Tick

NextWorkers ==
    \/ WorkerTick
    \/ \E i \in Insts : \E counts \in [1..StatsLen -> 0..MaxStat], k \in 1..MaxRefs :
          WorkerUpdateBleu(i, counts, [j \in 1..k |-> "ref"])
    \/ \E i \in Insts : \E prediction, reference \in SeqsUpTo(Words, MaxRegWords) :
          WorkerUpdateWer(i, prediction, reference)
    \/ \E i \in Insts : \E n \in (0 - MaxArg)..MaxArg : WorkerUpdateEt(i, n)
    \/ \E i \in Insts : WorkerCompute(i)
    \/ \E i \in Insts : \E ids \in SeqsUpTo(Insts \ {i}, MaxPeers) :
          \/ WorkerMergeState(i, List(ids))
          \/ WorkerMergeState(i, Iterator(ids))
    \/ \E i \in Insts, inference_mode \in BOOLEAN : WorkerReset(i, inference_mode)
    \/ WorkerSyncAndCompute

SpecWorkers == InitWorkersSpec /\ [][NextWorkers]_vars

----------------------------------------------------------------------------
(* Claims about the Metrics registry. *)

\* C1 (as claimed): reset() leaves every entry whose name ends with "_min"
\* as it was and resets every other metric entry to its initial state; an
\* EffectiveThroughput entry has a zero count afterwards.
C1_ResetZeroesAllButMin ==
    regLast.op = "reset" =>
        \A k \in Keys :
            LET before == regLast.pre[k]
                after == reg[regLast.rank][k]
            IN  IF EndsWith(k, "_min") THEN after = before
                ELSE IF before.kind = "WER" THEN after.st = WER_init
                ELSE IF before.kind = "EffectiveThroughput"
                THEN after.st = EffectiveThroughput_init(regLast.at)
                ELSE TRUE

\* C2: compute(sync=True) with world size 1 never invokes sync_and_compute;
\* every metric entry is computed locally.
C2_SingleParticipantNeverSyncs ==
    (regLast.op = "return" /\ worldSize = 1 /\ regLast.frame.sync) =>
        /\ regLast.frame.synced = {}
        /\ \A k \in MetricKeys(regLast.rank) :
              regLast.frame.results[regLast.frame.prefix \o k]
                 = Float(Metric_compute(reg[regLast.rank][k], regLast.at))

\* A single participant's compute(sync=True) returned, over a registry with
\* a metric that had counted something.
C2_Witness ==
    /\ regLast.op = "return"
    /\ worldSize = 1
    /\ regLast.frame.sync
    /\ \E k \in MetricKeys(0) : reg[0][k].st # NewMetric(reg[0][k].kind, 0).st

\* C3: compute(sync=True) with more than one participant computes each metric
\* entry through sync_and_compute, and only rank 0 holds a value for it: every
\* other rank holds None.
C3_OnlyCoordinatorHoldsValue ==
    (regLast.op = "return" /\ worldSize > 1 /\ regLast.frame.sync) =>
        \A k \in MetricKeys(regLast.rank) :
            LET val == regLast.frame.results[regLast.frame.prefix \o k] IN
            /\ k \in regLast.frame.synced
            /\ regLast.rank = 0 => val.py = "float"
            /\ regLast.rank # 0 => val = None

\* A rank other than 0 returned from compute(sync=True) over two metrics.
C3_Witness ==
    /\ regLast.op = "return"
    /\ worldSize > 1
    /\ regLast.frame.sync
    /\ regLast.rank # 0
    /\ Cardinality(MetricKeys(regLast.rank)) = 2

\* Rank 0 returned from compute(sync=True) with the value of a metric another
\* rank had updated.
C3_WitnessCoordinator ==
    /\ regLast.op = "return"
    /\ worldSize > 1
    /\ regLast.frame.sync
    /\ regLast.rank = 0
    /\ \E k \in MetricKeys(0) :
          /\ reg[1][k].st # reg[0][k].st
          /\ regLast.frame.results[regLast.frame.prefix \o k].py = "float"

\* C4: compute(prefix, sync) returns a mapping with exactly one key
\* prefix+name per entry; a plain value is passed through unchanged whatever
\* sync is; with sync=False a metric's value is its local compute().
C4_ComputeMapping ==
    regLast.op = "return" =>
        LET f == regLast.frame
            r == regLast.rank
        IN  /\ DOMAIN f.results = {f.prefix \o k : k \in Keys}
            /\ Cardinality(DOMAIN f.results) = Len(regKeys)
            /\ \A k \in Keys \ MetricKeys(r) :
                  f.results[f.prefix \o k] = reg[r][k].st
            /\ ~f.sync =>
                  \A k \in MetricKeys(r) :
                      f.results[f.prefix \o k]
                         = Float(Metric_compute(reg[r][k], regLast.at))

\* compute("eval/", sync=False) returned, over a plain value and a metric
\* that had counted something, after the clock had advanced.
C4_Witness ==
    /\ regLast.op = "return"
    /\ regLast.frame.prefix # ""
    /\ ~regLast.frame.sync
    /\ regLast.at > 0
    /\ \E k \in Keys : ~IsMetric(reg[regLast.rank][k])
    /\ \E k \in MetricKeys(regLast.rank) :
          reg[regLast.rank][k].st # NewMetric(reg[regLast.rank][k].kind, 0).st

\* Every rank is inside a synchronized compute() call.
AllIn == \A r \in Ranks : regCall[r].pc # "idle"

\* In this step a call that waited in sync_and_compute() got out of it.
Released(r) == regCall[r].pc = "sync" /\ regCall'[r].pc # "sync"

\* C18: the synchronized compute is a barrier.  A call waiting in
\* sync_and_compute() gets out of it (rank 0 with its value) only in a step
\* before which every rank was waiting in it, so while one rank does not
\* call, no call returns; and once every rank has entered it (the ranks
\* called at matching points), every rank's call eventually returns.
C18_Barrier ==
    /\ [][\A r \in Ranks : Released(r) => \A q \in Ranks : regCall[q].pc = "sync"]_vars
    /\ \A r \in 0..(MaxWorld - 1) :
          (r \in Ranks /\ AllJoined) ~> (r \in Ranks /\ Idle(r))

\* Every rank of a world of several is inside the call, past a collective
\* that completed and before the next one.
C18_Witness ==
    /\ worldSize > 1
    /\ AllIn
    /\ regLast.op = "synced"
    /\ \E r \in Ranks : regCall[r].idx <= Len(regKeys)

----------------------------------------------------------------------------
(* Claims about EffectiveThroughput. *)

Range(f) == {f[x] : x \in DOMAIN f}

Least(S) == CHOOSE m \in S : \A x \in S : m <= x

\* C5: update(n) with n < 0 fails with ValueError and leaves num_total and
\* start_time as they were; with n >= 0 it adds n to num_total and returns
\* self.
C5_UpdateRejectsNegative ==
    etLast.op = "update" =>
        IF etLast.n < 0
        THEN /\ etLast.ret = "ValueError"
             /\ et[etLast.inst].num_total = etLast.pre.num_total
             /\ et[etLast.inst].start_time = etLast.pre.start_time
        ELSE /\ etLast.ret = "self"
             /\ et[etLast.inst].num_total = etLast.pre.num_total + etLast.n

\* A negative update was made on an instance that had counted something and
\* been re-stamped.
C5_Witness ==
    /\ etLast.op = "update"
    /\ etLast.n < 0
    /\ etLast.pre.num_total > 0
    /\ etLast.pre.start_time > 0

C7_ComputeSinceLastReset ==
    (/\ etLast.op = "compute"
     /\ etLast.pre.start_time = etResetAt[etLast.inst]
     /\ etLast.at > etResetAt[etLast.inst])
    => etLast.value = TrueDiv(etSince[etLast.inst],
                              etLast.at - etResetAt[etLast.inst])

\* C8 (as documented): the elapsed time a compute() uses is the time since
\* the previous compute() on the same instance.
C8_ElapsedSincePreviousCompute ==
    (etLast.op = "compute" /\ etLast.prev >= 0 /\ etLast.at > etLast.prev)
    => etLast.elapsed = etLast.at - etLast.prev

\* C16 (as claimed): reset() re-stamps start_time to the clock reading of
\* the call and returns self, and leaves num_total as it was.
C16_ResetOnlyRestamps ==
    etLast.op = "reset" =>
        /\ etLast.ret = "self"
        /\ et[etLast.inst].start_time = etLast.at
        /\ et[etLast.inst].num_total = etLast.pre.num_total

\* C19: the num_total of an instance is never below what it was before the
\* last call on it, and always equals the sum of the accepted update()
\* arguments and of the peer counts merged in since __init__, whatever
\* updates failed and whatever resets were made.
C19_CountIsSumOfUpdatesAndMerges ==
    /\ \A i \in Insts : et[i].num_total = etEver[i]
    /\ etLast.op # "none" =>
          et[etLast.inst].num_total >= etLast.pre.num_total

\* A reset() went through on an instance that had counted two items or
\* more.
C19_Witness ==
    /\ etLast.op = "reset"
    /\ etLast.ret = "self"
    /\ etEver[etLast.inst] >= 2

----------------------------------------------------------------------------
(* Claims about WER. *)

\* C9: after any updates that leave a non-zero denominator, compute() is
\* (substitutions + deletions + insertions) / (substitutions + deletions +
\* hits) over the accumulated measures; when every update had prediction
\* identical to reference, it is 0.
C9_WerRate ==
    (/\ werLast.op = "compute"
     /\ werSum.substitutions + werSum.deletions + werSum.hits # 0)
    => /\ werLast.value =
            TrueDiv(werSum.substitutions + werSum.deletions + werSum.insertions,
                    werSum.substitutions + werSum.deletions + werSum.hits)
       /\ werSame => werLast.value = <<0, 1>>

\* compute() after updates that produced every kind of measure.
C9_Witness ==
    /\ werLast.op = "compute"
    /\ werSum.hits > 0
    /\ werSum.substitutions > 0
    /\ werSum.deletions > 0
    /\ werSum.insertions > 0
    /\ werSum.insertions # werSum.hits

\* compute() after updates that were all hits.
C9_WitnessAllHits ==
    /\ werLast.op = "compute"
    /\ werSame
    /\ werSum.hits > 1

\* substitutions + deletions + hits of a WER state.
Denominator(self) ==
    self.counters[KeyIndex("substitutions")] + self.counters[KeyIndex("deletions")]
        + self.counters[KeyIndex("hits")]

\* C17: compute() on a state whose denominator is zero divides by zero: it
\* returns, without raising, a quotient over zero (nan for 0/0, inf for
\* insertions/0), never a finite rate such as 0.
C17_ZeroDenominatorUndefined ==
    (werLast.op = "compute" /\ Denominator(wer) = 0) =>
        /\ werLast.ret = "value"
        /\ werLast.value[2] = 0
        /\ werLast.value = IF wer.counters[KeyIndex("insertions")] = 0
                            THEN <<0, 0>> ELSE <<1, 0>>

\* compute() on the initial counters (no update yet, or after a reset).
C17_Witness ==
    /\ werLast.op = "compute"
    /\ wer = WER_init
    /\ werLast.value = <<0, 0>>

\* compute() after updates with empty references only, the predictions
\* counted as insertions.
C17_WitnessInsertions ==
    /\ werLast.op = "compute"
    /\ Denominator(wer) = 0
    /\ wer.counters[KeyIndex("insertions")] > 1

----------------------------------------------------------------------------
(* Claims about merging and computing, for every metric class. *)

\* Field k of the instances `ids` of store h, added up onto x.
RECURSIVE FieldSum(_, _, _, _)
FieldSum(x, h, ids, k) ==
    IF ids = <<>> THEN x
    ELSE FieldSum(TensorAdd(x, h[Head(ids)][k]), h, Tail(ids), k)

CounterBased == mKind \in {"Bleu", "WER"}

\* C13 (as claimed): CounterBasedMetric.merge_state(peers) returns self and
\* leaves every registered state field equal to its prior value plus the sum
\* of that field over all peers, whatever iterable the peers come in.
C13_MergeSumsEveryField ==
    (mLast.op = "merge_state" /\ CounterBased) =>
        /\ mLast.ret = "self"
        /\ \A j \in 1..Len(StateNames(mKind)) :
              LET k == StateNames(mKind)[j] IN
              mStore[mLast.inst][k] =
                  FieldSum(mLast.preStore[mLast.inst][k], mLast.preStore,
                           mLast.metrics.items, k)

\* C14: the synchronized compute over workers that shared the updates among
\* them gives what a single worker that got every update computes locally:
\* the same value for Bleu and WER, the same count for EffectiveThroughput.
C14_MergedEqualsSingle ==
    (mLast.op = "sync_and_compute" /\ mPure) =>
        IF mKind = "EffectiveThroughput"
        THEN mLast.merged.num_total = mSingle.num_total
        ELSE mLast.value = Float(Metric_compute([kind |-> mKind, st |-> mSingle],
                                                mLast.at))

\* A synchronized compute over workers that had each counted something.
C14_Witness ==
    /\ mLast.op = "sync_and_compute"
    /\ mPure
    /\ \A i \in Insts : mStore[i] # NewMetric(mKind, 0).st
    /\ mSingle \notin {mStore[i] : i \in Insts}

\* C15: compute() leaves every registered state field of the instance as it
\* was, and a compute() straight after a compute() on the same instance, at
\* the same clock reading, returns the same value.
C15_ComputeIdempotent ==
    mLast.op = "compute" =>
        /\ \A j \in 1..Len(StateNames(mKind)) :
              mStore[mLast.inst][StateNames(mKind)[j]]
                  = mLast.pre[StateNames(mKind)[j]]
        /\ (/\ mLast.prev.op = "compute"
            /\ mLast.prev.inst = mLast.inst
            /\ mLast.prev.at = mLast.at) => mLast.value = mLast.prev.value

\* A second compute() in a row on an instance that had counted something.
C15_Witness ==
    /\ mLast.op = "compute"
    /\ mLast.prev.op = "compute"
    /\ mLast.prev.inst = mLast.inst
    /\ mLast.prev.at = mLast.at
    /\ mLast.pre # NewMetric(mKind, 0).st
    /\ mStore[mLast.inst] # NewMetric(mKind, mLast.at).st

\* C20: merge_state(peers) leaves every state field of every peer as it was.
C20_MergeLeavesPeers ==
    mLast.op = "merge_state" =>
        \A p \in Range(mLast.metrics.items) : mStore[p] = mLast.preStore[p]

\* A merge that changed the receiver, with a peer that had counted
\* something.
C20_Witness ==
    /\ mLast.op = "merge_state"
    /\ \E p \in Range(mLast.metrics.items) : mStore[p] # NewMetric(mKind, 0).st
    /\ mStore[mLast.inst] # mLast.preStore[mLast.inst]

----------------------------------------------------------------------------
(* Claims about the filter stage. *)

NonFailing == \A k \in 1..Len(fltSource) : fltPred[fltSource[k]] # "raise"

Accepted(d) == fltPred[d] = "true"

\* C10: with a predicate that does not fail, a full pass yields exactly the
\* upstream elements the predicate accepts, in upstream order, and then
\* signals exhaustion; so does every further pass after a reset().
C10_FilterYieldsAccepted ==
    NonFailing =>
        /\ fltState = "Exhausted" =>
              /\ fltOut = SelectSeq(fltSource, Accepted)
              /\ fltLast.ret = "StopIteration"
        /\ fltLast.ret = "StopIteration" => fltState = "Exhausted"
        /\ fltState # "Failed"

\* The second full pass after a reset, over an upstream of which some
\* elements are accepted and some are skipped.
C10_Witness ==
    /\ NonFailing
    /\ fltState = "Exhausted"
    /\ fltDone >= 2
    /\ Len(fltOut) >= 2
    /\ Len(fltOut) < Len(fltSource)

\* The positions of the upstream elements on which the predicate raises.
Failing == {k \in 1..Len(fltSource) : fltPred[fltSource[k]] = "raise"}

\* C11: if the predicate raises on an upstream element, the pass fails with
\* that error exactly when the first such element is reached: the accepted
\* elements before it have been yielded, the failing element is neither
\* skipped nor swallowed (the pass never gets past it, nor reports
\* exhaustion), and nothing after it is pulled or evaluated.
C11_FailureAtFailingElement ==
    /\ fltState = "Failed" =>
          /\ Failing # {}
          /\ fltLast = [ret |-> "error", value |-> fltSource[Least(Failing)]]
          /\ fltCursor = Least(Failing)
          /\ fltEvals = SubSeq(fltSource, 1, Least(Failing))
          /\ fltOut = SelectSeq(SubSeq(fltSource, 1, Least(Failing) - 1), Accepted)
    /\ Failing # {} =>
          /\ fltCursor <= Least(Failing)
          /\ fltCursor = Least(Failing) => fltState = "Failed"
          /\ fltState # "Exhausted"
          /\ fltLast.ret # "StopIteration"

\* A pass failed after it had yielded an element, with upstream elements
\* left behind the failing one.
C11_Witness ==
    /\ fltState = "Failed"
    /\ Len(fltOut) >= 1
    /\ fltCursor < Len(fltSource)

\* C12: after a reset(), whatever the earlier pass did, the pass starts at
\* the first upstream element and the predicate is called anew on every
\* element pulled, in order: what is yielded is what the predicate accepts
\* among them in this pass, and a failing element fails again.
C12_ResetGivesFreshPass ==
    fltRound >= 1 =>
        /\ fltLast.ret = "none" => (fltCursor = 0 /\ fltState = "Ready")
        /\ fltEvals = SubSeq(fltSource, 1, fltCursor)
        /\ fltOut = SelectSeq(SubSeq(fltSource, 1, fltCursor), Accepted)
        /\ (Failing # {} /\ fltCursor = Least(Failing)) => fltState = "Failed"

\* A pass after a reset failed again on the element an earlier pass had
\* failed on, having yielded again the element before it.
C12_Witness ==
    /\ fltRound >= 1
    /\ fltAborted >= 2
    /\ fltState = "Failed"
    /\ Len(fltOut) >= 1

=============================================================================
